---- MODULE Spec2Model ----
(***************************************************************************)
(* A model of simplesitesystem's build command (src/simplesitesystem/     *)
(* main.py): the path mapping, the memoised render / autolink recursion,  *)
(* the asset replication and the orchestration of one build.              *)
(*                                                                         *)
(* A string is a sequence of characters.  The two characters the code     *)
(* looks at, "/" (os.sep) and "." (os.extsep), are themselves; every      *)
(* other element ("out", "en", "blog", ...) stands for one character that *)
(* is neither, written mnemonically.                                       *)
(***************************************************************************)
EXTENDS Integers, Sequences, FiniteSets, TLC

(***************************************************************************)
(* Strings and the os.path functions the code calls (POSIX).               *)
(***************************************************************************)
sep == "/"
extsep == "."

\* str.find(c) + 1: the first position of c in s, 0 when c does not occur.
RECURSIVE Find(_, _, _)
Find(s, c, i) ==
    IF i > Len(s) THEN 0
    ELSE IF s[i] = c THEN i
    ELSE Find(s, c, i + 1)

\* str.rfind(c) + 1: the last position of c in s, 0 when c does not occur.
RECURSIVE RFind(_, _, _)
RFind(s, c, i) ==
    IF i = 0 THEN 0
    ELSE IF s[i] = c THEN i
    ELSE RFind(s, c, i - 1)

\* str.rstrip(c)
RECURSIVE RStrip(_, _)
RStrip(s, c) ==
    IF s # <<>> /\ s[Len(s)] = c THEN RStrip(SubSeq(s, 1, Len(s) - 1), c) ELSE s

StartsWith(s, p) == Len(s) >= Len(p) /\ SubSeq(s, 1, Len(p)) = p

EndsWith(s, p) == Len(s) >= Len(p) /\ SubSeq(s, Len(s) - Len(p) + 1, Len(s)) = p

\* str.split(c): the list of the pieces of s between the occurrences of c.
RECURSIVE Split(_, _)
Split(s, c) ==
    LET i == Find(s, c, 1)
    IN  IF i = 0 THEN <<s>>
        ELSE <<SubSeq(s, 1, i - 1)>> \o Split(SubSeq(s, i + 1, Len(s)), c)

\* c.join(parts)
RECURSIVE JoinWith(_, _)
JoinWith(parts, c) ==
    IF parts = <<>> THEN <<>>
    ELSE IF Len(parts) = 1 THEN parts[1]
    ELSE parts[1] \o <<c>> \o JoinWith(Tail(parts), c)

\* os.path.join(a, b)
join(a, b) ==
    IF b # <<>> /\ b[1] = sep THEN b
    ELSE IF a = <<>> \/ a[Len(a)] = sep THEN a \o b
    ELSE a \o <<sep>> \o b

\* os.path.join(a, b, c)
join3(a, b, c) == join(join(a, b), c)

\* head of posixpath.dirname: stripped of trailing separators unless it
\* consists of separators only
DirHead(head, stripped) == IF head # <<>> /\ stripped # <<>> THEN stripped ELSE head

DirOf(head) == DirHead(head, RStrip(head, sep))

\* os.path.dirname(p)
dirname(p) == DirOf(SubSeq(p, 1, RFind(p, sep, Len(p))))

\* os.path.basename(p)
basename(p) == SubSeq(p, RFind(p, sep, Len(p)) + 1, Len(p))

\* The position from which genericpath._splitext cuts the extension, 0 if none:
\* the last dot, if it comes after the last separator and after a character
\* of the filename that is not a dot.
RECURSIVE SplitextScan(_, _, _)
SplitextScan(p, filenameIndex, dotIndex) ==
    IF filenameIndex >= dotIndex THEN 0
    ELSE IF p[filenameIndex] # extsep THEN dotIndex
    ELSE SplitextScan(p, filenameIndex + 1, dotIndex)

SplitAt(p, cut) ==
    IF cut = 0 THEN <<p, <<>>>>
    ELSE <<SubSeq(p, 1, cut - 1), SubSeq(p, cut, Len(p))>>

SplitextCut(p, sepIndex, dotIndex) ==
    IF dotIndex > sepIndex THEN SplitextScan(p, sepIndex + 1, dotIndex) ELSE 0

\* os.path.splitext(p)
splitext(p) == SplitAt(p, SplitextCut(p, RFind(p, sep, Len(p)), RFind(p, extsep, Len(p))))

\* The component stack posixpath.normpath builds from the split path.
RECURSIVE NormComps(_, _, _)
NormComps(comps, new_comps, initial_slashes) ==
    IF comps = <<>> THEN new_comps
    ELSE LET comp == Head(comps)
             dotdot == <<extsep, extsep>>
         IN  IF comp = <<>> \/ comp = <<extsep>>
             THEN NormComps(Tail(comps), new_comps, initial_slashes)
             ELSE IF \/ comp # dotdot
                     \/ (initial_slashes = 0 /\ new_comps = <<>>)
                     \/ (new_comps # <<>> /\ new_comps[Len(new_comps)] = dotdot)
             THEN NormComps(Tail(comps), Append(new_comps, comp), initial_slashes)
             ELSE IF new_comps # <<>>
             THEN NormComps(Tail(comps), SubSeq(new_comps, 1, Len(new_comps) - 1),
                            initial_slashes)
             ELSE NormComps(Tail(comps), new_comps, initial_slashes)

\* initial_slashes of posixpath.normpath: POSIX keeps exactly two leading
\* slashes apart from one and from three or more.
InitialSlashes(path) ==
    IF ~StartsWith(path, <<sep>>) THEN 0
    ELSE IF StartsWith(path, <<sep, sep>>) /\ ~StartsWith(path, <<sep, sep, sep>>)
    THEN 2 ELSE 1

\* "path or dot"
OrDot(path) == IF path = <<>> THEN <<extsep>> ELSE path

NormWith(path, initial_slashes) ==
    OrDot([i \in 1..initial_slashes |-> sep]
              \o JoinWith(NormComps(Split(path, sep), <<>>, initial_slashes), sep))

\* os.path.normpath(path)
normpath(path) ==
    IF path = <<>> THEN <<extsep>> ELSE NormWith(path, InitialSlashes(path))

\* os.getcwd(): the directory the command is run from.
Cwd == <<sep, "w">>

\* os.path.abspath(path)
abspath(path) == normpath(IF StartsWith(path, <<sep>>) THEN path ELSE join(Cwd, path))

\* [x for x in s.split(sep) if x]
NonEmpty(parts) == SelectSeq(parts, LAMBDA x : x # <<>>)

\* len(os.path.commonprefix([a, b])) for two lists of components
RECURSIVE CommonLen(_, _)
CommonLen(a, b) ==
    IF a = <<>> \/ b = <<>> \/ Head(a) # Head(b) THEN 0
    ELSE 1 + CommonLen(Tail(a), Tail(b))

\* The value of a call that raises instead of returning.
Raised == <<"<raised>">>

\* rel_list of posixpath.relpath: up from start to the common prefix (of
\* length i), then down to path
RelList(start_list, path_list, i) ==
    [k \in 1..(Len(start_list) - i) |-> <<extsep, extsep>>]
        \o SubSeq(path_list, i + 1, Len(path_list))

RelJoin(rel_list) == IF rel_list = <<>> THEN <<extsep>> ELSE JoinWith(rel_list, sep)

RelBetween(start_list, path_list) ==
    RelJoin(RelList(start_list, path_list, CommonLen(start_list, path_list)))

\* os.path.relpath(path, start); ValueError when path is empty.
relpath(path, start) ==
    IF path = <<>> THEN Raised
    ELSE RelBetween(NonEmpty(Split(abspath(start), sep)), NonEmpty(Split(abspath(path), sep)))

\* os.path.join(rel, name) for a rel that relpath returned
JoinRel(rel, name) == IF rel = Raised THEN Raised ELSE join(rel, name)

\* fnmatch.fnmatch(name, "*.jinja"), the pattern of shutil.ignore_patterns
MatchesJinjaPattern(name) == EndsWith(name, <<extsep, "jinja">>)

(***************************************************************************)
(* The functions of main.py that compute on strings.                       *)
(***************************************************************************)
\* extension(filename)
extension(filename) == splitext(filename)[2]

\* strip_exts(filename)
strip_exts(filename) == Split(filename, extsep)[1]

\* The value None, and the empty string.
None == <<"<None>">>
EmptyStr == <<>>

\* page_path of render(template, locale)
PagePath(output_dir, locale, name) ==
    strip_exts(join3(output_dir, locale, name)) \o <<extsep, "html">>

(***************************************************************************)
(* The file system, relative to the working directory.  fs maps the        *)
(* normalised path of every file and symbolic link to <<tag, a, b>>:       *)
(*   <<"asset", p, "">>     a copy of the source file p                    *)
(*   <<"page", name, loc>>  the output of template name under locale loc   *)
(*   <<"empty", "", "">>    a file opened for writing and not yet written  *)
(*   <<"stale", "", "">>    a file left by an earlier build                *)
(*   <<"link", target, "">> a symbolic link with the stored target         *)
(* dirs is the set of the directories.                                     *)
(***************************************************************************)
EmptyFile == <<"empty", EmptyStr, EmptyStr>>
StaleFile == <<"stale", EmptyStr, EmptyStr>>

AboveOrNone(p, d) == d = EmptyStr \/ d = p

\* The directories above the normalised relative path p.
RECURSIVE Ancestors(_)
Ancestors(p) == IF AboveOrNone(p, dirname(p)) THEN {} ELSE {dirname(p)} \cup Ancestors(dirname(p))

WithAncestors(k) == {k} \cup Ancestors(k)

IsUnder(p, root) == StartsWith(p, root \o <<sep>>)

IsLink(files, p) == p \in DOMAIN files /\ files[p][1] = "link"

\* The file a path denotes once the symbolic links at it are followed.
RECURSIVE Resolve(_, _, _)
Resolve(files, p, fuel) ==
    IF fuel > 0 /\ IsLink(files, p)
    THEN Resolve(files, normpath(join(dirname(p), files[p][2])), fuel - 1)
    ELSE p

\* The longest chain of links the model follows.
MaxLinks == 3

Real(files, path) == Resolve(files, normpath(path), MaxLinks)

MakedirsOf(files, directories, want, empty) ==
    IF empty \/ (\E a \in want : a \in DOMAIN files)
    THEN [raised |-> TRUE, dirs |-> directories]
    ELSE [raised |-> FALSE, dirs |-> directories \cup want]

\* os.makedirs(d, exist_ok=True): whether it raises (d is empty, or d or a
\* directory above it is a file), and the directories afterwards.
Makedirs(files, directories, d) ==
    MakedirsOf(files, directories, WithAncestors(normpath(d)), d = EmptyStr)

OpenAt(files, directories, k, dir) ==
    IF k \in directories \/ (dir # EmptyStr /\ dir \notin directories) \/ IsLink(files, k)
    THEN [raised |-> TRUE, fs |-> files]
    ELSE [raised |-> FALSE, fs |-> (k :> EmptyFile) @@ files]

OpenReal(files, directories, k) == OpenAt(files, directories, k, dirname(k))

\* open(path, "w"), which creates or truncates the file the path denotes:
\* whether it raises (a directory, or no directory to create the file in), and
\* the files afterwards.
OpenW(files, directories, path) == OpenReal(files, directories, Real(files, path))

\* f.write(data) on the file opened at path
WriteData(files, path, data) == (Real(files, path) :> data) @@ files

\* shutil.rmtree(os.path.join(output_dir, "."), ignore_errors=True): everything
\* below the directory goes, the directory itself stays.
RmtreeBelow(files, root) == [p \in {q \in DOMAIN files : ~IsUnder(q, root)} |-> files[p]]

RmtreeFiles(files, output_dir) == RmtreeBelow(files, normpath(output_dir))

RmtreeDirsBelow(directories, root) == {d \in directories : ~IsUnder(d, root)}

RmtreeDirs(directories, output_dir) == RmtreeDirsBelow(directories, normpath(output_dir))

SeqToSet(s) == {s[i] : i \in DOMAIN s}

\* The source files shutil.copytree(..., ignore=ignore_patterns("*.jinja"))
\* copies: the pattern is applied to every name on the way, directories included.
Copied(source_files) ==
    {f \in SeqToSet(source_files) :
        \A comp \in SeqToSet(Split(f, sep)) : ~MatchesJinjaPattern(comp)}

\* The copies as a map from the normalised destination to the source file
CopyMap(copied, dst) == [p \in {normpath(join(dst, f)) : f \in copied} |->
                            <<"asset", CHOOSE f \in copied : normpath(join(dst, f)) = p, EmptyStr>>]

\* shutil.copytree(source_dir, dst, ignore=..., dirs_exist_ok=True)
CopytreeFiles(files, source_files, dst) == CopyMap(Copied(source_files), dst) @@ files

CopytreeDirs(directories, source_files, dst) ==
    directories \cup WithAncestors(normpath(dst))
        \cup UNION {Ancestors(normpath(join(dst, f))) : f \in Copied(source_files)}

\* assets(source_dir), as paths relative to source_dir, in the order of the walk
assets(source_files) ==
    SelectSeq(source_files, LAMBDA f : extension(basename(f)) # <<extsep, "jinja">>)

\* The characters of the template names in the order of their code points:
\* "." comes before "/", and both before the letters.
CharOrder ==
    <<extsep, sep, "a", "about", "b", "blog", "html", "index", "jinja", "post",
      "post-a", "post-b">>

Ord(c) == Find(CharOrder, c, 1)

\* a < b for two strings
RECURSIVE Less(_, _)
Less(a, b) ==
    IF b = <<>> THEN FALSE
    ELSE IF a = <<>> THEN TRUE
    ELSE IF a[1] = b[1] THEN Less(Tail(a), Tail(b))
    ELSE Ord(a[1]) < Ord(b[1])

RECURSIVE Insert(_, _)
Insert(list, x) ==
    IF list = <<>> THEN <<x>>
    ELSE IF Less(x, list[1]) THEN <<x>> \o list
    ELSE <<list[1]>> \o Insert(Tail(list), x)

\* sorted(names)
RECURSIVE Sorted(_)
Sorted(names) == IF names = <<>> THEN <<>> ELSE Insert(Sorted(Tail(names)), Head(names))

\* env.list_templates(extensions="jinja"): the names with a dot whose last
\* dot-suffix is jinja, in the sorted order in which the loader lists them
list_templates(source_files) ==
    Sorted(SelectSeq(source_files, LAMBDA f : EndsWith(f, <<extsep, "jinja">>)))

\* The link symlink(asset_filepath, locale_dir, first_locale_dir) creates
SymlinkPath(asset_filepath, locale_dir) == join(locale_dir, asset_filepath)

\* A link whose target is the path of the primary copy as build names it,
\* from the working directory
SymlinkTargetFromCwd(asset_filepath, locale_dir, first_locale_dir) ==
    join(first_locale_dir, asset_filepath)

\* and the target it stores in it.
SymlinkTarget(asset_filepath, locale_dir, first_locale_dir) ==
    LET new_filepath == join(locale_dir, asset_filepath)
        existing_filepath == join(first_locale_dir, asset_filepath)
        new_file_dir == dirname(new_filepath)
        existing_file_dir == dirname(existing_filepath)
    IN  JoinRel(relpath(existing_file_dir, new_file_dir), basename(asset_filepath))

(***************************************************************************)
(* The inputs of one run of the command.                                   *)
(***************************************************************************)
Index == <<"index", extsep, "html", extsep, "jinja">>
About == <<"about", extsep, "html", extsep, "jinja">>
BlogIndex == <<"blog", sep, "index", extsep, "html", extsep, "jinja">>
PostA == <<"blog", sep, "post-a", extsep, "html", extsep, "jinja">>
PostB == <<"blog", sep, "post-b", extsep, "html", extsep, "jinja">>
CatJpg == <<"img", sep, "cat", extsep, "jpg">>
IndexHtml == <<"index", extsep, "html">>
HiddenTxt == <<"d", extsep, "jinja", sep, "a", extsep, "txt">>
PostDotA == <<"post", extsep, "a", extsep, "html", extsep, "jinja">>
PostDotB == <<"post", extsep, "b", extsep, "html", extsep, "jinja">>

\* Source trees, each in the order the directory walk lists it.
SourceTrees ==
    { <<About, PostB, BlogIndex, PostA, CatJpg>>,
      <<Index, IndexHtml, HiddenTxt>>,
      <<PostDotB, PostDotA>>,
      <<Index, About>> }

OutputDirs ==
    { <<"out">>, <<"pub", sep, "out">>, <<"out", extsep, "d">>,
      <<"pub", sep, "out", extsep, "d">> }

\* The default of the --strings option, and a path given with it.
DefaultStrings == <<"strings", extsep, "toml">>
GivenStrings == <<"loc", extsep, "toml">>

Locales == { <<"en">>, <<"jp">> }

\* What the localization file holds: nothing (no such file), text that is no
\* TOML, or a table, of which the model keeps the locales in declaration order.
Missing == [kind |-> "missing", table |-> <<>>]
Invalid == [kind |-> "invalid", table |-> <<>>]
Table(t) == [kind |-> "table", table |-> t]
Tables ==
    { <<>> } \cup { <<a>> : a \in Locales }
        \cup { t \in [1..2 -> Locales] : t[1] # t[2] }

\* The directory argument a template body passes to autolink, None for a
\* body that does not call it.
Queries == { None, EmptyStr, <<extsep>>, <<"blog">> }

\* .simpleignore: no such file, or its lines
IgnoreFiles == { [exists |-> FALSE, lines |-> <<>>], [exists |-> TRUE, lines |-> <<PostB>>] }

\* The depth of nested render calls at which Python raises RecursionError.
MaxDepth == 4

VARIABLES
    argv,           \* the command line: output_dir, strings (None without -s), no_symlink_assets
    source,         \* the files under source_dir
    strings_toml,   \* path -> what the localization file at that path holds
    ignore_file,    \* .simpleignore
    body,           \* template name -> the autolink query of its body, once read
    fs, dirs,       \* the file system below the working directory
    strings_file,   \* build's parameter after click processed the option
    templates,      \* the list of all Templates
    localizations,  \* read_localizations' result (its locales in order)
    pages,          \* the renderer's list of written page paths
    li, ti, ai,     \* positions of the loops over locales, templates, assets
    stack,          \* the render calls in progress, outermost first
    pc,             \* where the command is
    message,        \* what the command printed last or exited with
    before,         \* the file system as the command found it
    log             \* the calls and file operations so far, in order

vars == <<argv, source, strings_toml, ignore_file, body, fs, dirs, strings_file,
          templates, localizations, pages, li, ti, ai, stack, pc, message, before, log>>

inputs == <<argv, source, strings_toml, ignore_file, before>>

\* What the command prints or exits with: the text and the path it names
Msg(text, path) == [text |-> text, path |-> path]

\* An entry of the log: what happened, for which template or asset and locale,
\* at which path, with what (a link's target, a URL), and whether it found
\* what it refers to in place; for a link that autolink yields, the template
\* the link is to.
Ev(ev, name, locale, path, data, flag) ==
    [ev |-> ev, name |-> name, locale |-> locale, path |-> path, data |-> data, flag |-> flag,
     target |-> EmptyStr]

Init ==
    /\ \E o \in OutputDirs, s \in {None, GivenStrings}, n \in BOOLEAN :
          argv = [output_dir |-> o, strings |-> s, no_symlink_assets |-> n]
    /\ source \in SourceTrees
    /\ \E c \in {Missing, Invalid} \cup {Table(t) : t \in Tables} :
          strings_toml = [p \in {DefaultStrings, GivenStrings} |->
                            IF p = (IF argv.strings = None THEN DefaultStrings ELSE argv.strings)
                            THEN c ELSE Missing]
    /\ ignore_file \in IgnoreFiles
    /\ body = <<>>
    /\ \E stale \in BOOLEAN :
          /\ fs = IF stale THEN (join(argv.output_dir, <<"old">>) :> StaleFile) ELSE <<>>
          /\ dirs = IF stale THEN WithAncestors(argv.output_dir) ELSE {}
    /\ before = [fs |-> fs, dirs |-> dirs]
    /\ strings_file = None
    /\ templates = <<>>
    /\ localizations = <<>>
    /\ pages = <<>>
    /\ li = 0 /\ ti = 0 /\ ai = 0
    /\ stack = <<>>
    /\ pc = "cli"
    /\ message = Msg("", EmptyStr)
    /\ log = <<>>

(***************************************************************************)
(* click's processing of the command line, before build is called.         *)
(***************************************************************************)
\* The --strings option: its default when it is not given, and the check
\* exists=True on the value either way.
PathExists(value) ==
    IF strings_toml[value] = Missing
    THEN /\ pc' = "exit"
         /\ message' = Msg("does not exist", value)
         /\ UNCHANGED strings_file
    ELSE /\ pc' = "build"
         /\ strings_file' = value
         /\ UNCHANGED message

CliParse ==
    /\ pc = "cli"
    /\ PathExists(IF argv.strings = None THEN DefaultStrings ELSE argv.strings)
    /\ UNCHANGED <<inputs, body, fs, dirs, templates, localizations, pages, li, ti, ai,
                   stack, log>>

(***************************************************************************)
(* build                                                                   *)
(***************************************************************************)
\* A template list that leaves the ignore list aside
IgnoringNothing(paths, ignore) == paths

\* [path for path in paths if path not in ignore]
NotIgnored(paths, ignore) == SelectSeq(paths, LAMBDA path : path \notin SeqToSet(ignore))

\* The ignore list, the clearing of the output directory and the loading of
\* the templates.
BuildSetup ==
    /\ pc = "build"
    /\ templates' = NotIgnored(list_templates(source),
                               IF ignore_file.exists THEN ignore_file.lines ELSE <<>>)
    /\ fs' = RmtreeFiles(fs, argv.output_dir)
    /\ dirs' = RmtreeDirs(dirs, argv.output_dir)
    /\ log' = Append(log, Ev("rmtree", EmptyStr, EmptyStr, argv.output_dir, EmptyStr, TRUE))
    /\ pc' = "loaded"
    /\ UNCHANGED <<inputs, body, strings_file, localizations, pages, li, ti, ai, stack,
                   message>>

\* A read_localizations that takes a file it cannot parse for an empty table
read_localizations_lenient(path) ==
    [exit |-> FALSE, message |-> Msg("", path), value |-> strings_toml[path].table]

\* read_localizations(path): the table, or the message it exits with
read_localizations(path) ==
    IF strings_toml[path].kind = "missing"
    THEN [exit |-> TRUE, message |-> Msg("does not exist", path), value |-> <<>>]
    ELSE IF strings_toml[path].kind = "invalid"
    THEN [exit |-> TRUE, message |-> Msg("is not a valid TOML file", path), value |-> <<>>]
    ELSE [exit |-> FALSE, message |-> Msg("", path), value |-> strings_toml[path].table]

\* build after read_localizations returned or exited
Localized(r) ==
    IF r.exit
    THEN /\ pc' = "exit"
         /\ message' = r.message
         /\ UNCHANGED <<localizations, pages, fs, dirs, log, li, ti>>
    ELSE IF Len(r.value) = 0
    THEN /\ pc' = "done"
         /\ message' = Msg("No localizations in strings file.", EmptyStr)
         /\ localizations' = r.value
         /\ UNCHANGED <<pages, fs, dirs, log, li, ti>>
    ELSE /\ localizations' = r.value
         /\ pages' = <<>>
         /\ li' = 1
         /\ pc' = "locale"
         /\ UNCHANGED <<message, fs, dirs, log, ti>>

\* The branch on strings_file and what follows it up to the loop over the locales.
BuildBranch ==
    /\ pc = "loaded"
    /\ IF strings_file = None
       THEN /\ pages' = <<>>
            /\ fs' = CopytreeFiles(fs, source, argv.output_dir)
            /\ dirs' = CopytreeDirs(dirs, source, argv.output_dir)
            /\ log' = Append(log, Ev("copytree", EmptyStr, EmptyStr, argv.output_dir,
                                     EmptyStr, TRUE))
            /\ li' = 0 /\ ti' = 1
            /\ pc' = "render"
            /\ UNCHANGED <<localizations, message>>
       ELSE Localized(read_localizations(strings_file))
    /\ UNCHANGED <<inputs, body, strings_file, templates, ai, stack>>

\* The locale of the pass in progress: the default "" of render's parameter
\* when build renders without localizations.
Locale == IF li = 0 THEN EmptyStr ELSE localizations[li]

first_locale == localizations[1]

\* An exception that is caught and logged, after which build carries on
CarryOn(error, events) ==
    /\ pc' = pc
    /\ stack' = <<>>
    /\ message' = Msg(error, EmptyStr)
    /\ log' = log \o events

\* An exception nobody catches ends the command.
Crash(error, events) ==
    /\ pc' = "crashed"
    /\ stack' = <<>>
    /\ message' = Msg(error, EmptyStr)
    /\ log' = log \o events

\* The copy of the assets into locale_dir (the if branch of build's loop)
CopyAssets(locale, locale_dir) ==
    /\ fs' = CopytreeFiles(fs, source, locale_dir)
    /\ dirs' = CopytreeDirs(dirs, source, locale_dir)
    /\ log' = Append(log, Ev("copytree", EmptyStr, locale, locale_dir, EmptyStr, TRUE))
    /\ pc' = "render"
    /\ ti' = 1
    /\ UNCHANGED ai

\* A loop over the locales that copies the assets for every locale
StartSymlinksByCopy(list) ==
    CopyAssets(localizations[li], join(argv.output_dir, localizations[li]))

\* The else branch: the start of the loop over assets(source_dir)
StartSymlinks(list) ==
    /\ IF list = <<>>
       THEN pc' = "render" /\ ti' = 1 /\ UNCHANGED ai
       ELSE pc' = "symlink" /\ ai' = 1 /\ UNCHANGED ti
    /\ UNCHANGED <<fs, dirs, log>>

\* The head of the loop over the locales and the copy of the assets; without
\* the copy, the start of the loop over assets(source_dir).
BeginLocale ==
    /\ pc = "locale"
    /\ IF localizations[li] = first_locale \/ argv.no_symlink_assets
       THEN CopyAssets(localizations[li], join(argv.output_dir, localizations[li]))
       ELSE StartSymlinks(assets(source))
    /\ UNCHANGED <<inputs, body, strings_file, templates, localizations, pages, li, stack,
                   message>>

\* os.makedirs(new_file_dir, exist_ok=True); os.symlink(target, new_filepath):
\* k is the place of the link, pointed the file the stored target denotes
\* from there.
MakeLink(asset_filepath, locale, new_filepath, target, mk, k, pointed, last) ==
    IF mk.raised \/ target = Raised \/ k \in DOMAIN fs \/ k \in dirs
    THEN /\ Crash("OSError",
                  <<Ev("raise", asset_filepath, locale, new_filepath, EmptyStr, FALSE)>>)
         /\ UNCHANGED <<fs, dirs, ai, ti>>
    ELSE /\ fs' = (k :> <<"link", target, EmptyStr>>) @@ fs
         /\ dirs' = mk.dirs
         /\ log' = Append(log, Ev("symlink", asset_filepath, locale, new_filepath, target,
                                  pointed \in DOMAIN fs))
         /\ IF last
            THEN pc' = "render" /\ ti' = 1 /\ UNCHANGED ai
            ELSE pc' = "symlink" /\ ai' = ai + 1 /\ UNCHANGED ti
         /\ UNCHANGED <<stack, message>>

PointedFrom(new_filepath, target) ==
    IF target = Raised THEN Raised ELSE normpath(join(dirname(new_filepath), target))

SymlinkAt(asset_filepath, locale, new_filepath, target, last) ==
    MakeLink(asset_filepath, locale, new_filepath, target,
             Makedirs(fs, dirs, dirname(new_filepath)), normpath(new_filepath),
             PointedFrom(new_filepath, target), last)

symlink(asset_filepath, locale, locale_dir, first_locale_dir, last) ==
    SymlinkAt(asset_filepath, locale, SymlinkPath(asset_filepath, locale_dir),
              SymlinkTarget(asset_filepath, locale_dir, first_locale_dir), last)

\* One turn of the loop over assets(source_dir): symlink(...)
SymlinkAsset ==
    /\ pc = "symlink"
    /\ symlink(assets(source)[ai], localizations[li],
               join(argv.output_dir, localizations[li]),
               join(argv.output_dir, first_locale),
               ai = Len(assets(source)))
    /\ UNCHANGED <<inputs, body, strings_file, templates, localizations, pages, li>>

(***************************************************************************)
(* render and autolink.  A frame of the stack is one call of render whose  *)
(* template body is being evaluated: the template, its locale and          *)
(* page_path, and i, the position in templates of the target the body's    *)
(* loop over autolink(...) reached last.                                   *)
(***************************************************************************)
Frame(name, locale, page_path) ==
    [template |-> name, locale |-> locale, page_path |-> page_path, i |-> 0]

\* A memo that also answers for the pages whose render is in progress
MemoisedOrInProgress(page_path, written) ==
    \/ page_path \in SeqToSet(written)
    \/ \E i \in DOMAIN stack : stack[i].page_path = page_path

\* "page_path not in pages" is false
Memoised(page_path, written) == page_path \in SeqToSet(written)

Entered(page_path, outcome, directories, files) ==
    [page_path |-> page_path, outcome |-> outcome, dirs |-> directories, fs |-> files]

EnterOpen(page_path, mk, op) ==
    IF op.raised THEN Entered(page_path, "raise", mk.dirs, fs)
    ELSE Entered(page_path, "open", mk.dirs, op.fs)

EnterDir(page_path, mk) ==
    IF mk.raised THEN Entered(page_path, "raise", dirs, fs)
    ELSE IF Memoised(page_path, pages) THEN Entered(page_path, "hit", mk.dirs, fs)
    ELSE EnterOpen(page_path, mk, OpenW(fs, mk.dirs, page_path))

EnterPath(page_path) == EnterDir(page_path, Makedirs(fs, dirs, dirname(page_path)))

\* render(template, locale) up to the evaluation of the template: page_path,
\* the directories and files afterwards, and how it goes on: "hit" (page_path
\* is in pages: return it), "open" (the file is open, the body comes next) or
\* "raise".
Enter(name, locale) == EnterPath(PagePath(argv.output_dir, locale, name))

\* The body of a template is read when the template is first evaluated.
ReadBody(name) ==
    \E q \in Queries : body' = IF name \in DOMAIN body THEN body ELSE (name :> q) @@ body

\* qualified_path of autolink(path) called from a template of in_template_dir
QualifiedPath(in_template_dir, path) == join(in_template_dir, path)

\* Whether autolink's loop takes the target: its directory is qualified_path.
Matches(target, qualified_path) == dirname(target) = qualified_path

\* The position in templates, from j on, of the next target autolink's loop
\* takes, 0 when there is none.
RECURSIVE NextMatch(_, _, _)
NextMatch(list, qualified_path, j) ==
    IF j > Len(list) THEN 0
    ELSE IF Matches(list[j], qualified_path) THEN j
    ELSE NextMatch(list, qualified_path, j + 1)

NextFor(f, path) ==
    IF path = None THEN 0
    ELSE NextMatch(templates, QualifiedPath(dirname(f.template), path), f.i + 1)

\* The next target of the loop of frame f, 0 when the loop (or a body without
\* autolink) has none left.
NextTarget(f) == NextFor(f, body[f.template])

\* url of autolink for the page target_page, linked from the page in_page_path
Url(target_page, in_page_path) ==
    JoinRel(relpath(dirname(target_page), dirname(in_page_path)), basename(target_page))

IsPage(files, k) == k \in DOMAIN files /\ files[k][1] = "page"

\* What PyQuery(filename=target_page) finds: whether the file holds a page
Scrape(files, target_page) == IsPage(files, Real(files, target_page))

CallEv(name, locale, page_path) == Ev("call", name, locale, page_path, EmptyStr, TRUE)
ReturnEv(name, locale, page_path) == Ev("return", name, locale, page_path, EmptyStr, TRUE)
OpenEv(name, locale, page_path) == Ev("open", name, locale, page_path, EmptyStr, TRUE)
WriteEv(name, locale, page_path) == Ev("write", name, locale, page_path, EmptyStr, TRUE)
RaiseEv(name, locale, page_path) == Ev("raise", name, locale, page_path, EmptyStr, FALSE)
YieldEv(f, target, target_page, url, files) ==
    [Ev("yield", f.template, f.locale, target_page, url, Scrape(files, target_page))
        EXCEPT !.target = target]

\* render(name, locale) called by build's loop, e being how it enters
TopLevel(name, locale, e) ==
    CASE e.outcome = "raise" ->
           /\ Crash("OSError",
                    <<CallEv(name, locale, e.page_path), RaiseEv(name, locale, e.page_path)>>)
           /\ UNCHANGED <<fs, dirs, body, ti>>
      [] e.outcome = "hit" ->
           /\ dirs' = e.dirs
           /\ log' = log \o <<CallEv(name, locale, e.page_path),
                              ReturnEv(name, locale, e.page_path)>>
           /\ ti' = ti + 1
           /\ UNCHANGED <<fs, body, stack, pc, message>>
      [] e.outcome = "open" ->
           /\ dirs' = e.dirs
           /\ fs' = e.fs
           /\ ReadBody(name)
           /\ stack' = <<Frame(name, locale, e.page_path)>>
           /\ log' = log \o <<CallEv(name, locale, e.page_path),
                              OpenEv(name, locale, e.page_path)>>
           /\ UNCHANGED <<ti, pc, message>>

\* One turn of build's loop over the templates: render(template, locale)
RenderCall ==
    /\ pc = "render" /\ stack = <<>> /\ ti <= Len(templates)
    /\ TopLevel(templates[ti], Locale, Enter(templates[ti], Locale))
    /\ UNCHANGED <<inputs, strings_file, templates, localizations, pages, li, ai>>

\* render(name, f.locale) called by the autolink of frame f for the target at
\* position j, e being how it enters and url the link to its page
Nested(f, j, below, name, e, url) ==
    CASE e.outcome = "raise" ->
           /\ Crash("OSError",
                    <<CallEv(name, f.locale, e.page_path),
                      RaiseEv(name, f.locale, e.page_path)>>)
           /\ UNCHANGED <<fs, dirs, body>>
      [] e.outcome = "hit" /\ url = Raised ->
           /\ Crash("ValueError",
                    <<CallEv(name, f.locale, e.page_path),
                      ReturnEv(name, f.locale, e.page_path),
                      RaiseEv(f.template, f.locale, f.page_path)>>)
           /\ dirs' = e.dirs
           /\ UNCHANGED <<fs, body>>
      [] e.outcome = "hit" /\ url # Raised ->
           /\ dirs' = e.dirs
           /\ stack' = Append(below, [f EXCEPT !.i = j])
           /\ log' = log \o <<CallEv(name, f.locale, e.page_path),
                              ReturnEv(name, f.locale, e.page_path),
                              YieldEv(f, name, e.page_path, url, fs)>>
           /\ UNCHANGED <<fs, body, pc, message>>
      [] e.outcome = "open" /\ Len(stack) >= MaxDepth ->
           /\ Crash("RecursionError",
                    <<CallEv(name, f.locale, e.page_path),
                      RaiseEv(name, f.locale, e.page_path)>>)
           /\ UNCHANGED <<fs, dirs, body>>
      [] e.outcome = "open" /\ Len(stack) < MaxDepth ->
           /\ dirs' = e.dirs
           /\ fs' = e.fs
           /\ ReadBody(name)
           /\ stack' = Append(Append(below, [f EXCEPT !.i = j]),
                              Frame(name, f.locale, e.page_path))
           /\ log' = log \o <<CallEv(name, f.locale, e.page_path),
                              OpenEv(name, f.locale, e.page_path)>>
           /\ UNCHANGED <<pc, message>>

NestedEnter(f, j, name, e) ==
    Nested(f, j, SubSeq(stack, 1, Len(stack) - 1), name, e, Url(e.page_path, f.page_path))

NestedCall(f, j) ==
    /\ j # 0
    /\ NestedEnter(f, j, templates[j], Enter(templates[j], f.locale))

\* The body's loop over autolink(path) asks for the next link: autolink takes
\* the next target of its directory and calls render for it.  A render that
\* returns at once yields the link; otherwise the target's body comes first.
AutolinkNext ==
    /\ pc = "render" /\ stack # <<>>
    /\ NestedCall(stack[Len(stack)], NextTarget(stack[Len(stack)]))
    /\ UNCHANGED <<inputs, strings_file, templates, localizations, pages, li, ti, ai>>

\* The return of render to the autolink of the frame caller, which yields
\* the link url
YieldTo(f, below, caller, written, url) ==
    IF url = Raised
    THEN /\ Crash("ValueError",
                  <<WriteEv(f.template, f.locale, f.page_path),
                    ReturnEv(f.template, f.locale, f.page_path),
                    RaiseEv(caller.template, caller.locale, caller.page_path)>>)
         /\ UNCHANGED ti
    ELSE /\ stack' = below
         /\ log' = log \o <<WriteEv(f.template, f.locale, f.page_path),
                            ReturnEv(f.template, f.locale, f.page_path),
                            YieldEv(caller, f.template, f.page_path, url, written)>>
         /\ UNCHANGED <<ti, pc, message>>

\* A render that returns without recording its page
Forget(written, page_path) == written

\* pages.append(page_path)
Remember(written, page_path) == Append(written, page_path)

\* The end of render for frame f: the write, the append to pages, the return
Finish(f, below, written) ==
    /\ fs' = written
    /\ pages' = Remember(pages, f.page_path)
    /\ IF below = <<>>
       THEN /\ stack' = <<>>
            /\ ti' = ti + 1
            /\ log' = log \o <<WriteEv(f.template, f.locale, f.page_path),
                               ReturnEv(f.template, f.locale, f.page_path)>>
            /\ UNCHANGED <<pc, message>>
       ELSE YieldTo(f, below, below[Len(below)], written,
                    Url(f.page_path, below[Len(below)].page_path))

FinishTop(f) ==
    /\ NextTarget(f) = 0
    /\ Finish(f, SubSeq(stack, 1, Len(stack) - 1),
              WriteData(fs, f.page_path, <<"page", f.template, f.locale>>))

\* The body of the innermost render is evaluated to its end: render writes
\* the file, appends page_path to pages and returns it, to build's loop or to
\* the autolink that called it, which yields the link.
RenderReturn ==
    /\ pc = "render" /\ stack # <<>>
    /\ FinishTop(stack[Len(stack)])
    /\ UNCHANGED <<inputs, body, dirs, strings_file, templates, localizations, li, ai>>

\* The loop over the templates is over: the next locale, or the end of build.
EndLocale ==
    /\ pc = "render" /\ stack = <<>> /\ ti > Len(templates)
    /\ IF li = 0 \/ li = Len(localizations)
       THEN pc' = "done" /\ UNCHANGED li
       ELSE pc' = "locale" /\ li' = li + 1
    /\ UNCHANGED <<inputs, body, fs, dirs, strings_file, templates, localizations, pages,
                   ti, ai, stack, message, log>>

Next ==
    \/ CliParse
    \/ BuildSetup
    \/ BuildBranch
    \/ BeginLocale
    \/ SymlinkAsset
    \/ RenderCall
    \/ AutolinkNext
    \/ RenderReturn
    \/ EndLocale

Spec == Init /\ [][Next]_vars
(***************************************************************************)
(* What the claims speak of, read off the log.                             *)
(***************************************************************************)
\* The positions of the log with an event of the kind for the template (or
\* asset) and locale
At(kind, name, locale) ==
    {i \in DOMAIN log : log[i].ev = kind /\ log[i].name = name /\ log[i].locale = locale}

Kind(kind) == {i \in DOMAIN log : log[i].ev = kind}

\* The locales of the events of the log
LoggedLocales == {log[i].locale : i \in DOMAIN log}

\* The path of the localization file the command reads
EffectiveStrings == IF argv.strings = None THEN DefaultStrings ELSE argv.strings

Terminated == pc \in {"done", "exit", "crashed"}

\* The files and directories under the output root
OutputFiles(files) == {p \in DOMAIN files : IsUnder(p, normpath(argv.output_dir))}
OutputDirsOf(directories) == {d \in directories : IsUnder(d, normpath(argv.output_dir))}

(***************************************************************************)
(* C1                                                                      *)
(***************************************************************************)
\* C1: in every locale each template's body is evaluated, and its output
\* path opened for writing, at most once, so that the evaluations of one
\* locale never outnumber the discovered templates.
C1_RenderedAtMostOnce ==
    /\ \A i \in Kind("open") : Cardinality(At("open", log[i].name, log[i].locale)) <= 1
    /\ \A l \in LoggedLocales :
          Cardinality({i \in Kind("open") : log[i].locale = l}) <= Len(templates)

(***************************************************************************)
(* C2                                                                      *)
(***************************************************************************)
\* C2: render terminates whatever the autolink queries match: a template
\* whose render is in progress is not entered again, so the nesting of render
\* calls never exceeds the number of templates and never ends in Python's
\* RecursionError.
C2_RenderTerminates ==
    /\ \A i, j \in DOMAIN stack : i # j => stack[i].template # stack[j].template
    /\ Len(stack) <= Len(templates)
    /\ message.text # "RecursionError"

(***************************************************************************)
(* C3                                                                      *)
(***************************************************************************)
\* A call of render for a template and locale whose earlier render returned
RepeatedCalls ==
    {<<i, j>> \in Kind("return") \X Kind("call") :
        i < j /\ log[i].name = log[j].name /\ log[i].locale = log[j].locale}

\* C3: a call render(T, L) after an earlier render(T, L) returned evaluates
\* nothing and writes nothing: it returns at once, with the path the first
\* call returned, and T has been opened and written once for L.
C3_SecondRenderIsNoOp ==
    \A c \in RepeatedCalls :
        /\ c[2] < Len(log)
        /\ log[c[2] + 1] = ReturnEv(log[c[1]].name, log[c[1]].locale, log[c[1]].path)
        /\ Cardinality(At("open", log[c[1]].name, log[c[1]].locale)) = 1
        /\ Cardinality(At("write", log[c[1]].name, log[c[1]].locale)) = 1

C3_Witness == RepeatedCalls # {}

(***************************************************************************)
(* C4                                                                      *)
(***************************************************************************)
\* outputRoot/locale/<directory of the template>/<bare filename up to its
\* first dot>.html
ClaimedPagePath(output_dir, locale, name) ==
    join(join3(output_dir, locale, dirname(name)),
         strip_exts(basename(name)) \o <<extsep, "html">>)

\* C4: the output path render computes is outputRoot/locale/<template's
\* directory>/<bare filename cut at its first dot>.html; dots in the output
\* root, the locale or the directories leave those components unchanged.
C4_OutputPath ==
    \A i \in Kind("call") :
        log[i].path = ClaimedPagePath(argv.output_dir, log[i].locale, log[i].name)

(***************************************************************************)
(* C5                                                                      *)
(***************************************************************************)
\* The templates of the directory of template name, in discovery order
InDirectory(name) == SelectSeq(templates, LAMBDA t : dirname(t) = dirname(name))

\* and those without the template itself
Siblings(name) == SelectSeq(InDirectory(name), LAMBDA t : t # name)

\* The pages autolink yielded to the body of template name under the locale,
\* in order
RECURSIVE Yielded(_, _, _)
Yielded(name, locale, i) ==
    IF i > Len(log) THEN <<>>
    ELSE IF log[i].ev = "yield" /\ log[i].name = name /\ log[i].locale = locale
    THEN <<log[i].path>> \o Yielded(name, locale, i + 1)
    ELSE Yielded(name, locale, i + 1)

PagesOf(list, locale) == [k \in DOMAIN list |-> PagePath(argv.output_dir, locale, list[k])]

\* A directory argument that names the directory of the calling template
OwnDirectory == { EmptyStr, <<extsep>> }

\* C5: a template that autolinks its own directory has received, once its
\* body is evaluated, one link for each sibling template of that directory,
\* in discovery order (with or without a link to the template itself).
C5_OwnDirectoryLinks ==
    \A i \in Kind("write") :
        body[log[i].name] \in OwnDirectory =>
            Yielded(log[i].name, log[i].locale, 1)
                \in { PagesOf(Siblings(log[i].name), log[i].locale),
                      PagesOf(InDirectory(log[i].name), log[i].locale) }

(***************************************************************************)
(* C6                                                                      *)
(***************************************************************************)
\* C6: the primary locale is the first declared, its assets are copied
\* before any link of a secondary locale is created, and so every link finds
\* the file it points to in place when it is created.
C6_TargetsExistAtSymlink ==
    \A i \in Kind("symlink") :
        /\ \E j \in Kind("copytree") :
              /\ j < i
              /\ log[j].locale = localizations[1]
              /\ log[j].path = join(argv.output_dir, localizations[1])
        /\ log[i].locale # localizations[1]
        /\ log[i].flag

(***************************************************************************)
(* C7                                                                      *)
(***************************************************************************)
\* C7: for the asset p and the secondary locale L, symlink creates a link at
\* outputRoot/L/p whose stored target is a relative path that, resolved from
\* the link's directory, denotes outputRoot/primary/p.
C7_SymlinkResolvesToPrimary ==
    \A i \in Kind("symlink") :
        /\ log[i].path = join3(argv.output_dir, log[i].locale, log[i].name)
        /\ IsLink(fs, normpath(log[i].path))
        /\ fs[normpath(log[i].path)][2] = log[i].data
        /\ ~StartsWith(log[i].data, <<sep>>)
        /\ normpath(join(dirname(log[i].path), log[i].data))
              = normpath(join3(argv.output_dir, localizations[1], log[i].name))

C7_Witness ==
    \E i \in Kind("symlink") :
        /\ log[i].name = CatJpg
        /\ argv.output_dir = <<"pub", sep, "out">>
        /\ log[i].locale # localizations[1]

(***************************************************************************)
(* C8                                                                      *)
(***************************************************************************)
\* C8: a build that is given no localization table copies the assets once
\* into the output root and renders every discovered template exactly once
\* with no locale, each page at outputRoot/<relative path> with no locale
\* segment.
C8_NoTablePlainBuild ==
    (argv.strings = None /\ Terminated) =>
        /\ \E i \in Kind("copytree") :
              log[i].path = argv.output_dir /\ log[i].locale = EmptyStr
        /\ Cardinality(Kind("copytree")) = 1
        /\ \A k \in DOMAIN templates :
              /\ Cardinality(At("write", templates[k], EmptyStr)) = 1
              /\ \A i \in At("write", templates[k], EmptyStr) :
                    log[i].path = ClaimedPagePath(argv.output_dir, EmptyStr, templates[k])
        /\ \A i \in Kind("write") : log[i].locale = EmptyStr

(***************************************************************************)
(* C9                                                                      *)
(***************************************************************************)
\* C9: with a localization table of zero locales the build creates, writes
\* and deletes nothing under the output root.
C9_EmptyTableNoMutation ==
    strings_toml[EffectiveStrings] = Table(<<>>) =>
        /\ OutputFiles(fs) = OutputFiles(before.fs)
        /\ \A p \in OutputFiles(fs) : fs[p] = before.fs[p]
        /\ OutputDirsOf(dirs) = OutputDirsOf(before.dirs)

(***************************************************************************)
(* C10                                                                     *)
(***************************************************************************)
BadStrings == strings_toml[EffectiveStrings].kind \in {"missing", "invalid"}

\* C10: with the localization file missing or no valid TOML the build ends
\* with a message that names the file; no asset is copied or linked, no
\* template is rendered, and no file is written to the output root.
C10_BadStringsNothingWritten ==
    BadStrings =>
        /\ pc \in {"cli", "build", "loaded", "exit"}
        /\ pc = "exit" => message.path = EffectiveStrings
        /\ \A i \in DOMAIN log : log[i].ev \notin {"copytree", "symlink", "call", "open", "write"}
        /\ \A p \in OutputFiles(fs) : p \in DOMAIN before.fs /\ fs[p] = before.fs[p]

C10_Witness ==
    /\ strings_toml[EffectiveStrings].kind = "invalid"
    /\ pc = "exit"
    /\ Kind("rmtree") # {}
    /\ message = Msg("is not a valid TOML file", EffectiveStrings)

(***************************************************************************)
(* C11                                                                     *)
(***************************************************************************)
\* Whether build copies the assets for the locale
CopiesAssets(l) == l = localizations[1] \/ argv.no_symlink_assets

\* The asset copies under the output directory of the locale
CopiedInto(l) ==
    {p \in DOMAIN fs : IsUnder(p, normpath(join(argv.output_dir, l))) /\ fs[p][1] = "asset"}

\* C11: a locale's assets are copied if and only if the locale is the primary
\* one or symlinking is disabled; every other locale gets one symlink for each
\* asset and no copy, before its first template is rendered.
C11_CopyIffPrimaryOrDisabled ==
    /\ \A i \in Kind("copytree") : CopiesAssets(log[i].locale)
    /\ \A i \in Kind("symlink") : ~CopiesAssets(log[i].locale)
    /\ \A i \in Kind("call") :
          IF CopiesAssets(log[i].locale)
          THEN \E j \in Kind("copytree") :
                  /\ j < i
                  /\ log[j].locale = log[i].locale
                  /\ log[j].path = join(argv.output_dir, log[i].locale)
          ELSE /\ \A k \in DOMAIN assets(source) :
                     \E j \in At("symlink", assets(source)[k], log[i].locale) : j < i
               /\ CopiedInto(log[i].locale) = {}

C11_Witness ==
    /\ pc = "done"
    /\ ~argv.no_symlink_assets
    /\ Kind("symlink") # {}
    /\ \E i \in Kind("call") : log[i].locale = localizations[2]

(***************************************************************************)
(* C12                                                                     *)
(***************************************************************************)
\* The template names listed in the ignore file
Ignored == IF ignore_file.exists THEN SeqToSet(ignore_file.lines) ELSE {}

\* C12: a template listed in the ignore file is never rendered, by build's
\* loop or by an autolink, in any locale, and no autolink yields its page.
C12_IgnoredNeverRenderedNorLinked ==
    \A t \in Ignored :
        /\ \A i \in DOMAIN log : log[i].name # t
        /\ \A i \in DOMAIN stack : stack[i].template # t
        /\ \A i \in Kind("yield") : log[i].target # t
        /\ \A i \in DOMAIN templates : templates[i] # t

\* A build with posts ignored whose front page autolinked the directory of the
\* ignored template
C12_Witness ==
    /\ pc = "done"
    /\ PostB \in Ignored
    /\ \E i \in Kind("yield") :
          /\ log[i].name = About
          /\ log[i].target = PostA

(***************************************************************************)
(* C13                                                                     *)
(***************************************************************************)
\* The output paths written during the pass of the locale in progress
WrittenThisPass == {log[i].path : i \in {j \in Kind("write") : log[j].locale = Locale}}

\* C13: the memo of written pages belongs to one locale's pass: it is empty
\* when the pass of a locale starts and holds, while the pass renders, only
\* paths written during this pass.
C13_MemoFreshPerLocale ==
    /\ pc \in {"locale", "symlink"} => pages = <<>>
    /\ pc = "render" => SeqToSet(pages) \subseteq WrittenThisPass

(***************************************************************************)
(* C14                                                                     *)
(***************************************************************************)
\* The directory that d names, seen from the directory of the calling
\* template, as a logical directory of the source tree ("" is its root)
ResolvedDirectory(in_template_dir, d) ==
    IF normpath(join(in_template_dir, d)) = <<extsep>> THEN EmptyStr
    ELSE normpath(join(in_template_dir, d))

\* The templates autolink yielded links to, to the body of template name under
\* the locale, in order
RECURSIVE YieldedTargets(_, _, _)
YieldedTargets(name, locale, i) ==
    IF i > Len(log) THEN <<>>
    ELSE IF log[i].ev = "yield" /\ log[i].name = name /\ log[i].locale = locale
    THEN <<log[i].target>> \o YieldedTargets(name, locale, i + 1)
    ELSE YieldedTargets(name, locale, i + 1)

TemplatesIn(directory) == SelectSeq(templates, LAMBDA t : dirname(t) = directory)

\* C14: a body that loops over autolink(d) has received, once it is
\* evaluated, exactly one link for each template whose directory is the one d
\* resolves to from the caller's directory, no other link, in the order of
\* the template list.
C14_AutolinkYieldsDirectory ==
    \A i \in Kind("write") :
        body[log[i].name] # None =>
            YieldedTargets(log[i].name, log[i].locale, 1)
                = TemplatesIn(ResolvedDirectory(dirname(log[i].name), body[log[i].name]))

(***************************************************************************)
(* C15                                                                     *)
(***************************************************************************)
\* C15: when autolink reads a target page, render has returned its path just
\* before, the path is in the memo, the page was written earlier in the same
\* locale and the file holds a complete page, not an unwritten or truncated one.
C15_ScrapedPageIsComplete ==
    \A i \in Kind("yield") :
        /\ log[i - 1] = ReturnEv(log[i].target, log[i].locale, log[i].path)
        /\ Memoised(log[i].path, pages)
        /\ \E j \in Kind("write") :
              j < i /\ log[j].path = log[i].path /\ log[j].locale = log[i].locale
        /\ log[i].flag

\* A page read right after the render that autolink triggered wrote it, with
\* every template at a path of its own
C15_Witness ==
    /\ argv.output_dir = <<"out">>
    /\ \E i \in Kind("yield") : log[i - 2].ev = "write" /\ log[i].target = PostA

(***************************************************************************)
(* C16                                                                     *)
(***************************************************************************)
\* C16: the URL autolink yields is relative and, resolved against the
\* directory of the calling page, denotes the output path of the target; that
\* path lies in the output directory of the locale both were rendered under.
C16_UrlDenotesTargetInLocale ==
    \A i \in Kind("yield") :
        /\ ~StartsWith(log[i].data, <<sep>>)
        /\ normpath(join(dirname(PagePath(argv.output_dir, log[i].locale, log[i].name)),
                         log[i].data))
              = normpath(log[i].path)
        /\ log[i].path = PagePath(argv.output_dir, log[i].locale, log[i].target)
        /\ IsUnder(normpath(log[i].path), normpath(join(argv.output_dir, log[i].locale)))

(***************************************************************************)
(* C17                                                                     *)
(***************************************************************************)
\* How often the memo holds the path
TimesIn(written, path) == Cardinality({k \in DOMAIN written : written[k] = path})

\* The renders that ran to their end with the path
WritesAt(path) == {i \in Kind("write") : log[i].path = path}

\* What the build produced so far is in the file system
ProducedInPlace ==
    /\ \A i \in Kind("copytree") :
          \A f \in Copied(source) : normpath(join(log[i].path, f)) \in DOMAIN fs
    /\ \A i \in Kind("symlink") : IsLink(fs, normpath(log[i].path))
    /\ \A i \in Kind("open") \cup Kind("write") : Real(fs, log[i].path) \in DOMAIN fs

\* C17: a failed step ends the build: the failure is the last thing that
\* happens (no retry, no later template or locale), no render is left in
\* progress, the memo holds a path once for each render that ran to its end
\* with it and so nothing for the failed render, and what was produced before
\* stays in place.
C17_FailureStopsBuild ==
    /\ \A i \in Kind("raise") : i = Len(log) /\ pc = "crashed" /\ stack = <<>>
    /\ pc = "crashed" =>
          /\ log # <<>> /\ log[Len(log)].ev = "raise"
          /\ \A j \in At("write", log[Len(log)].name, log[Len(log)].locale) :
                \E k \in At("call", log[Len(log)].name, log[Len(log)].locale) : k > j
          /\ \A i \in Kind("call") :
                TimesIn(pages, log[i].path) = Cardinality(WritesAt(log[i].path))
          /\ ProducedInPlace

\* A failure inside a render that an autolink triggered, after a page was
\* written and linked
C17_Witness ==
    /\ pc = "crashed"
    /\ message.text = "RecursionError"
    /\ Kind("write") # {}
    /\ Kind("yield") # {}

(***************************************************************************)
(* C18                                                                     *)
(***************************************************************************)
\* The calls of render that found their path in the memo and returned at once
MemoHits == {i \in Kind("call") : i < Len(log) /\ log[i + 1].ev = "return"}

\* C18: two calls of render have the same output path only if they are for
\* the same template and locale, so a call that finds its path in the memo is
\* for a template that was written for this locale before.
C18_OutputPathInjective ==
    /\ \A i, j \in Kind("call") :
          log[i].path = log[j].path =>
              log[i].name = log[j].name /\ log[i].locale = log[j].locale
    /\ \A i \in MemoHits :
          \E j \in At("write", log[i].name, log[i].locale) : j < i

(***************************************************************************)
(* C19                                                                     *)
(***************************************************************************)
\* The output directory of the primary locale
PrimaryDir == normpath(join(argv.output_dir, localizations[1]))

\* What the pass of the primary locale leaves in a file: a copied asset or a
\* page of the primary locale
PrimaryContent(file) ==
    file[1] = "asset" \/ (file[1] = "page" /\ file[3] = localizations[1])

\* C19: while a secondary locale is processed (its links created, its pages
\* rendered), every file under the primary locale's output directory keeps
\* the content the primary locale's pass gave it.
C19_SecondaryLeavesPrimaryAlone ==
    li >= 2 =>
        \A p \in DOMAIN fs : IsUnder(p, PrimaryDir) => PrimaryContent(fs[p])

(***************************************************************************)
(* C20                                                                     *)
(***************************************************************************)
\* The assets that received a link in the pass of the locale
Linked(l) == {log[j].name : j \in {k \in Kind("symlink") : log[k].locale = l}}

\* C20: when the pages of a secondary locale are rendered, the relative paths
\* linked for it are exactly those copied for the primary locale, no link
\* dangles, and the two filters agree on every file of the source tree.
C20_SymlinksMatchCopies ==
    \A i \in Kind("call") :
        ~CopiesAssets(log[i].locale) =>
            /\ Linked(log[i].locale) = Copied(source)
            /\ \A j \in Kind("symlink") : Real(fs, log[j].path) \in DOMAIN fs
            /\ \A k \in DOMAIN source :
                  (extension(basename(source[k])) # <<extsep, "jinja">>)
                      <=> (source[k] \in Copied(source))
====
